---- MODULE Spec2Model ----
(***************************************************************************)
(* dadapy/_utils/metric_comparisons.py: _return_ranks (conditional ranks   *)
(* of the first k neighbours of distance 1 in the neighbour lists of       *)
(* distance 2) and _return_imbalance (mean rank divided by N/2).           *)
(*                                                                         *)
(* A behaviour is one call of one of the two functions.  Arrays are        *)
(* 0-based, as in the source: an array of length n is a function with      *)
(* domain 0..n-1.  A matrix carries its shape, because a numpy array with  *)
(* no rows or no columns still has one.  conditional_ranks holds floats    *)
(* that only ever receive integers (positions and randint results), so its *)
(* entries are integers here.  The two float divisions of line 75 are kept *)
(* exact: a float is a fraction num/den, or nan.                           *)
(***************************************************************************)
EXTENDS Integers, FiniteSets, Sequences, TLC

\* Largest number of rows (points) of an input matrix with arbitrary entries.
MaxN == 2
\* Largest number of rows of an input matrix that is a neighbour list (every
\* row starts with its own index and holds distinct indices).
MaxPoints == 3
\* Largest number of columns (neighbours per point) of an enumerated matrix.
MaxM == 3

VARIABLES
    fn,                 \* the function that was called
    dist_indices_1,     \* argument: [shape |-> <<rows, cols>>, data |-> rows x cols]
    dist_indices_2,     \* argument
    k,                  \* argument
    pc,                 \* position of the call
    N,                  \* local N of _return_ranks (line 35)
    maxk_2,             \* local maxk_2 (line 36)
    conditional_ranks,  \* local conditional_ranks (line 38)
    i,                  \* loop variable of line 40
    wr,                 \* local wr (lines 43-46)
    k_neighbor,         \* loop variable of line 48
    rng_calls,          \* number of calls of np.random.randint so far
    err,                \* the exception that ended the call, "" if none
    ranks,              \* what _return_ranks returned (line 54, line 73)
    imb                 \* what _return_imbalance returned (line 77)

vars == <<fn, dist_indices_1, dist_indices_2, k, pc, N, maxk_2, conditional_ranks,
          i, wr, k_neighbor, rng_calls, err, ranks, imb>>

----------------------------------------------------------------------------
\* numpy arrays

\* len(a) of a 0-based array.
Len0(a) == Cardinality(DOMAIN a)

\* All rows x cols integer matrices with entries in vals.
Matrices(rows, cols, vals) ==
    { [shape |-> <<rows, cols>>, data |-> d] :
        d \in [0 .. rows - 1 -> [0 .. cols - 1 -> vals]] }

\* a.shape[0] and a.shape[1]
Rows(a) == a.shape[1]
Cols(a) == a.shape[2]

\* Mutant: the assert compares the column counts.
SameRows_cols(a, b) == Cols(a) = Cols(b)

\* The assert of lines 33 and 69.
SameRows(a, b) == Rows(a) = Rows(b)

\* np.zeros((n, kk)); numpy refuses a negative dimension, which the caller tests.
Zeros(n, kk) == [r \in 0 .. n - 1 |-> [c \in 0 .. kk - 1 |-> 0]]

\* row[lo:hi] for 0 <= lo <= hi: a slice stops at the end of the row.
Slice(row, lo, hi) ==
    LET stop == IF hi < Len0(row) THEN hi ELSE Len0(row)
        n    == IF stop > lo THEN stop - lo ELSE 0
    IN  [c \in 0 .. n - 1 |-> row[lo + c]]

\* Mutant: the positions come out descending, so [0] is the last match.
NpWhere_desc(x, row) ==
    LET S == {p \in DOMAIN row : row[p] = x}
    IN  [c \in 0 .. Cardinality(S) - 1 |->
            CHOOSE p \in S : Cardinality({q \in S : q > p}) = c]

\* np.where(x == row)[0]: the positions of x in row, ascending.
NpWhere(x, row) ==
    LET S == {p \in DOMAIN row : row[p] = x}
    IN  [c \in 0 .. Cardinality(S) - 1 |->
            CHOOSE p \in S : Cardinality({q \in S : q < p}) = c]

\* Mutant: the draw covers the whole range of ranks, from 0.
Randint_from0(low, high) == 0 .. high - 1

\* Mutant: high is included, as with random.randint.
Randint_inclusive(low, high) == low .. high

\* The values np.random.randint(low, high) can return; none when low >= high,
\* where numpy raises ValueError.
Randint(low, high) == low .. high - 1

\* Mutant: a neighbour counts as found only when it matches exactly once.
IsMiss_notOne(w) == Len0(w) # 1

\* The test of line 49 on one entry of wr.
IsMiss(w) == Len0(w) = 0

----------------------------------------------------------------------------
\* floats of line 75, exact

NaN == [kind |-> "nan", num |-> 0, den |-> 1]
Unset == [kind |-> "unset", num |-> 0, den |-> 1]
Frac(a, b) == [kind |-> "num", num |-> a, den |-> b]

RECURSIVE SumRow(_, _)
SumRow(row, n) == IF n = 0 THEN 0 ELSE row[n - 1] + SumRow(row, n - 1)

RECURSIVE SumRows(_, _)
SumRows(m, n) ==
    IF n = 0 THEN 0 ELSE SumRow(m[n - 1], Len0(m[n - 1])) + SumRows(m, n - 1)

\* Number of entries of a matrix held as an array of rows.
Size(m) == IF Len0(m) = 0 THEN 0 ELSE Len0(m) * Len0(m[0])

\* Mutant: the sum is divided by the number of rows.
Mean_rows(m) == IF Size(m) = 0 THEN NaN ELSE Frac(SumRows(m, Len0(m)), Len0(m))

\* np.mean(m): the sum over the number of entries, nan for an empty matrix.
Mean(m) == IF Size(m) = 0 THEN NaN ELSE Frac(SumRows(m, Len0(m)), Size(m))

\* Mutant: the mean is divided by n, not by n / 2.
Normalise_n(mean, n) ==
    IF mean.kind = "nan" \/ n = 0 THEN NaN ELSE Frac(mean.num, mean.den * n)

\* mean / (n / 2.0); nan stays nan (n = 0 only comes with an empty matrix).
Normalise(mean, n) ==
    IF mean.kind = "nan" \/ n = 0 THEN NaN ELSE Frac(mean.num * 2, mean.den * n)

----------------------------------------------------------------------------
\* the inputs of a call

\* Row r of a neighbour list over n points: r itself first, then distinct
\* other points.
NeighbourRows(r, n, cols) ==
    { row \in [0 .. cols - 1 -> 0 .. n - 1] :
        /\ row[0] = r
        /\ \A p \in DOMAIN row : \A q \in DOMAIN row : row[p] = row[q] => p = q }

NeighbourMatrices(n, cols) ==
    { [shape |-> <<n, cols>>, data |-> d] :
        d \in { e \in [0 .. n - 1 -> UNION {NeighbourRows(r, n, cols) : r \in 0 .. n - 1}] :
                   \A r \in 0 .. n - 1 : e[r] \in NeighbourRows(r, n, cols) } }

\* Matrices of any shape up to MaxN x MaxM, entries any point index.
ArbitraryInputs ==
    UNION { Matrices(rows, cols, 0 .. rows - 1) :
              rows \in 0 .. MaxN, cols \in 0 .. MaxM }

\* Neighbour lists as a nearest-neighbour search returns them.
NeighbourInputs ==
    UNION { NeighbourMatrices(rows, cols) :
              rows \in 1 .. MaxPoints, cols \in 1 .. MaxM }

\* The 4-point neighbour list of the documented example.
Example4 ==
    [shape |-> <<4, 4>>,
     data  |-> [r \in 0 .. 3 |->
                  [c \in 0 .. 3 |->
                     <<<<0, 1, 2, 3>>, <<1, 0, 2, 3>>,
                       <<2, 3, 0, 1>>, <<3, 2, 1, 0>>>>[r + 1][c + 1]]]]

Inputs == ArbitraryInputs \cup NeighbourInputs \cup {Example4}

Init ==
    /\ fn \in {"_return_ranks", "_return_imbalance"}
    /\ dist_indices_1 \in Inputs
    /\ dist_indices_2 \in Inputs
    /\ k \in (0 - 1) .. MaxM
    /\ pc = IF fn = "_return_imbalance" THEN "imb_assert" ELSE "assert"
    /\ N = 0
    /\ maxk_2 = 0
    /\ conditional_ranks = <<>>
    /\ i = 0
    /\ wr = <<>>
    /\ k_neighbor = 0
    /\ rng_calls = 0
    /\ err = ""
    /\ ranks = <<>>
    /\ imb = Unset

----------------------------------------------------------------------------
\* _return_imbalance, lines 69-73: the assert, then the call of _return_ranks.

ImbAssertFails ==
    /\ pc = "imb_assert"
    /\ ~SameRows(dist_indices_1, dist_indices_2)
    /\ pc' = "raised"
    /\ err' = "AssertionError"
    /\ UNCHANGED <<fn, dist_indices_1, dist_indices_2, k, N, maxk_2,
                   conditional_ranks, i, wr, k_neighbor, rng_calls, ranks, imb>>

ImbAssertHolds ==
    /\ pc = "imb_assert"
    /\ SameRows(dist_indices_1, dist_indices_2)
    /\ pc' = "assert"
    /\ UNCHANGED <<fn, dist_indices_1, dist_indices_2, k, N, maxk_2,
                   conditional_ranks, i, wr, k_neighbor, rng_calls, err, ranks, imb>>

\* _return_ranks, line 33.
AssertFails ==
    /\ pc = "assert"
    /\ ~SameRows(dist_indices_1, dist_indices_2)
    /\ pc' = "raised"
    /\ err' = "AssertionError"
    /\ UNCHANGED <<fn, dist_indices_1, dist_indices_2, k, N, maxk_2,
                   conditional_ranks, i, wr, k_neighbor, rng_calls, ranks, imb>>

\* Lines 33-36.
AssertHolds ==
    /\ pc = "assert"
    /\ SameRows(dist_indices_1, dist_indices_2)
    /\ N' = Rows(dist_indices_1)
    /\ maxk_2' = Cols(dist_indices_2)
    /\ pc' = "zeros"
    /\ UNCHANGED <<fn, dist_indices_1, dist_indices_2, k, conditional_ranks,
                   i, wr, k_neighbor, rng_calls, err, ranks, imb>>

\* Line 38 with k < 0: np.zeros raises "negative dimensions are not allowed".
ZerosFails ==
    /\ pc = "zeros"
    /\ k < 0
    /\ pc' = "raised"
    /\ err' = "ValueError"
    /\ UNCHANGED <<fn, dist_indices_1, dist_indices_2, k, N, maxk_2,
                   conditional_ranks, i, wr, k_neighbor, rng_calls, ranks, imb>>

\* Line 38, and the loop of line 40 starts.
ZerosDone ==
    /\ pc = "zeros"
    /\ k >= 0
    /\ conditional_ranks' = Zeros(N, k)
    /\ i' = 0
    /\ pc' = "for_i"
    /\ UNCHANGED <<fn, dist_indices_1, dist_indices_2, k, N, maxk_2,
                   wr, k_neighbor, rng_calls, err, ranks, imb>>

\* Mutant: the slice keeps the self entry of column 0.
idx_k_d1_self == Slice(dist_indices_1.data[i], 0, k)

\* idx_k_d1 of line 41 for the current row.
idx_k_d1 == Slice(dist_indices_1.data[i], 1, k + 1)

\* Lines 41-46 when idx_k_d1 is shorter than k: idx_k_d1[k_neighbor] raises.
WhereFails ==
    /\ pc = "for_i"
    /\ i < N
    /\ Len0(idx_k_d1) < k
    /\ pc' = "raised"
    /\ err' = "IndexError"
    /\ UNCHANGED <<fn, dist_indices_1, dist_indices_2, k, N, maxk_2,
                   conditional_ranks, i, wr, k_neighbor, rng_calls, ranks, imb>>

\* Lines 40-46: the positions of each of the k neighbours in row i of matrix 2.
WhereDone ==
    /\ pc = "for_i"
    /\ i < N
    /\ Len0(idx_k_d1) >= k
    /\ wr' = [c \in 0 .. k - 1 |-> NpWhere(idx_k_d1[c], dist_indices_2.data[i])]
    /\ k_neighbor' = 0
    /\ pc' = "for_k"
    /\ UNCHANGED <<fn, dist_indices_1, dist_indices_2, k, N, maxk_2,
                   conditional_ranks, i, rng_calls, err, ranks, imb>>

\* Lines 49-50, a miss: the rank is drawn.
AssignMiss ==
    /\ pc = "for_k"
    /\ k_neighbor < k
    /\ IsMiss(wr[k_neighbor])
    /\ \E r \in Randint(maxk_2, N) :
          conditional_ranks' =
              [conditional_ranks EXCEPT ![i][k_neighbor] = r]
    /\ rng_calls' = rng_calls + 1
    /\ k_neighbor' = k_neighbor + 1
    /\ UNCHANGED <<fn, dist_indices_1, dist_indices_2, k, pc, N, maxk_2,
                   i, wr, err, ranks, imb>>

\* Lines 49-50, a miss with maxk_2 >= N: randint raises "low >= high".
AssignMissFails ==
    /\ pc = "for_k"
    /\ k_neighbor < k
    /\ IsMiss(wr[k_neighbor])
    /\ Randint(maxk_2, N) = {}
    /\ rng_calls' = rng_calls + 1
    /\ pc' = "raised"
    /\ err' = "ValueError"
    /\ UNCHANGED <<fn, dist_indices_1, dist_indices_2, k, N, maxk_2,
                   conditional_ranks, i, wr, k_neighbor, ranks, imb>>

\* Lines 51-52, a hit: the rank is the first position.
AssignHit ==
    /\ pc = "for_k"
    /\ k_neighbor < k
    /\ ~IsMiss(wr[k_neighbor])
    /\ conditional_ranks' =
           [conditional_ranks EXCEPT ![i][k_neighbor] = wr[k_neighbor][0]]
    /\ k_neighbor' = k_neighbor + 1
    /\ UNCHANGED <<fn, dist_indices_1, dist_indices_2, k, pc, N, maxk_2,
                   i, wr, rng_calls, err, ranks, imb>>

\* The loop of line 48 is over: next i.
NextRow ==
    /\ pc = "for_k"
    /\ k_neighbor >= k
    /\ i' = i + 1
    /\ pc' = "for_i"
    /\ UNCHANGED <<fn, dist_indices_1, dist_indices_2, k, N, maxk_2,
                   conditional_ranks, wr, k_neighbor, rng_calls, err, ranks, imb>>

\* Line 54; for _return_imbalance this is the assignment of line 73.
Return ==
    /\ pc = "for_i"
    /\ i >= N
    /\ ranks' = conditional_ranks
    /\ pc' = IF fn = "_return_imbalance" THEN "imb_mean" ELSE "done"
    /\ UNCHANGED <<fn, dist_indices_1, dist_indices_2, k, N, maxk_2,
                   conditional_ranks, i, wr, k_neighbor, rng_calls, err, imb>>

\* Lines 71, 75-77.
ImbReturn ==
    /\ pc = "imb_mean"
    /\ imb' = Normalise(Mean(ranks), Rows(dist_indices_1))
    /\ pc' = "done"
    /\ UNCHANGED <<fn, dist_indices_1, dist_indices_2, k, N, maxk_2,
                   conditional_ranks, i, wr, k_neighbor, rng_calls, err, ranks>>

Next ==
    \/ ImbAssertFails
    \/ ImbAssertHolds
    \/ AssertFails
    \/ AssertHolds
    \/ ZerosFails
    \/ ZerosDone
    \/ WhereFails
    \/ WhereDone
    \/ AssignMiss
    \/ AssignMissFails
    \/ AssignHit
    \/ NextRow
    \/ Return
    \/ ImbReturn

Spec == Init /\ [][Next]_vars

----------------------------------------------------------------------------
\* What the properties speak about, stated on the arguments and not through
\* the operators of the computation.

M1 == dist_indices_1.shape[2]
M2 == dist_indices_2.shape[2]
RowsAgree == dist_indices_1.shape[1] = dist_indices_2.shape[1]
Points == dist_indices_1.shape[1]

\* k is a rank order the first matrix supports.
ValidK == 1 <= k /\ k <= M1 - 1

\* The entries (i, j) of the rank matrix whose neighbour column j+1 exists.
Cells ==
    { cell \in (0 .. Points - 1) \X (0 .. k - 1) : cell[2] + 1 < M1 }

\* The neighbour n = dist_indices_1[i, j+1] and its positions in row i of
\* dist_indices_2.
Neighbour(cell) == dist_indices_1.data[cell[1]][cell[2] + 1]
Positions(cell) ==
    { p \in 0 .. M2 - 1 : dist_indices_2.data[cell[1]][p] = Neighbour(cell) }
Least(S) == CHOOSE p \in S : \A q \in S : p <= q

Hits == { cell \in Cells : Positions(cell) # {} }
Misses == { cell \in Cells : Positions(cell) = {} }

\* Entry cell of conditional_ranks has been assigned by the loops.
Assigned(cell) ==
    \/ cell[1] < i
    \/ cell[1] = i /\ pc = "for_k" /\ cell[2] < k_neighbor

\* _return_ranks has returned its matrix.
Returned == pc \in {"imb_mean", "done"}

\* Every top-k neighbour of distance 1 is in its row of distance 2.
AllFound == RowsAgree /\ ValidK /\ Misses = {}

\* Every row starts with its own index and holds distinct point indices.
WellFormed(m) ==
    /\ m.shape[2] >= 1
    /\ \A r \in 0 .. m.shape[1] - 1 :
          /\ m.data[r][0] = r
          /\ \A p \in 0 .. m.shape[2] - 1 :
                /\ m.data[r][p] \in 0 .. m.shape[1] - 1
                /\ \A q \in 0 .. m.shape[2] - 1 :
                      m.data[r][p] = m.data[r][q] => p = q

\* Every value of both matrices is a point index.
IndicesInRange ==
    /\ \A r \in 0 .. Points - 1 : \A p \in 0 .. M1 - 1 :
          dist_indices_1.data[r][p] \in 0 .. Points - 1
    /\ \A r \in 0 .. Points - 1 : \A p \in 0 .. M2 - 1 :
          dist_indices_2.data[r][p] \in 0 .. Points - 1

RECURSIVE SumCells(_)
SumCells(S) ==
    IF S = {} THEN 0
    ELSE LET cell == CHOOSE x \in S : TRUE
         IN  ranks[cell[1]][cell[2]] + SumCells(S \ {cell})

RECURSIVE SumTo(_)
SumTo(n) == IF n <= 0 THEN 0 ELSE n + SumTo(n - 1)

----------------------------------------------------------------------------
\* C1: when the neighbour dist_indices_1[i, j+1] occurs in row i of
\* dist_indices_2, the entry (i, j) that _return_ranks assigns, and returns,
\* is the lowest position of that neighbour in the row, column 0 included.
C1_FirstMatchIsRank ==
    RowsAgree =>
        \A cell \in Hits :
            /\ Assigned(cell) =>
                   conditional_ranks[cell[1]][cell[2]] = Least(Positions(cell))
            /\ Returned => ranks[cell[1]][cell[2]] = Least(Positions(cell))

\* A returned matrix with a neighbour that occurs twice, first at column 0.
C1_Witness ==
    /\ pc = "done"
    /\ RowsAgree
    /\ \E cell \in Hits :
          /\ Cardinality(Positions(cell)) >= 2
          /\ 0 \in Positions(cell)
          /\ ranks[cell[1]][cell[2]] = 0

\* C2: a rank stored for a neighbour that is absent from its row of
\* dist_indices_2 lies in M2 .. N-1, and every miss takes a draw of its own:
\* a returned matrix has seen as many draws as it has misses.
C2_MissRankInTail ==
    RowsAgree =>
        /\ \A cell \in Misses :
              /\ Assigned(cell) =>
                     /\ M2 <= conditional_ranks[cell[1]][cell[2]]
                     /\ conditional_ranks[cell[1]][cell[2]] < Points
              /\ Returned =>
                     /\ M2 <= ranks[cell[1]][cell[2]]
                     /\ ranks[cell[1]][cell[2]] < Points
        /\ Returned => rng_calls = Cardinality(Misses)

\* A returned matrix in which two misses drew different ranks.
C2_Witness ==
    /\ pc = "done"
    /\ RowsAgree
    /\ \E a \in Misses : \E b \in Misses :
          ranks[a[1]][a[2]] # ranks[b[1]][b[2]]

\* C3: with differing row counts the call never gets past its assert: it is
\* at its entry or has raised AssertionError, whatever k is, with no rank
\* matrix allocated, no draw taken, and nothing returned.
C3_RowMismatchRaises ==
    ~RowsAgree =>
        /\ pc \in {"imb_assert", "assert", "raised"}
        /\ fn = "_return_imbalance" => pc # "assert"
        /\ pc = "raised" => err = "AssertionError"
        /\ conditional_ranks = <<>>
        /\ rng_calls = 0
        /\ ranks = <<>>
        /\ imb = Unset

\* _return_imbalance has raised on 2 rows against 3 with a negative k.
C3_Witness ==
    /\ fn = "_return_imbalance"
    /\ pc = "raised"
    /\ err = "AssertionError"
    /\ dist_indices_1.shape[1] = 2
    /\ dist_indices_2.shape[1] = 3
    /\ k < 0

\* C4: with equal row counts, a call whose k is <= 0 or > M1 - 1 never
\* returns a rank matrix or an imbalance.
C4_BadKNeverReturns ==
    (RowsAgree /\ (k <= 0 \/ k > M1 - 1)) => ~Returned

\* C5 as stated: identical matrices and 1 <= k <= M1 - 1 give ranks j+1,
\* no draw, and the imbalance mean(1..k) / (N/2).
C5_IdenticalGivesOwnPosition ==
    (pc = "done" /\ dist_indices_1 = dist_indices_2 /\ ValidK) =>
        /\ \A cell \in Cells : ranks[cell[1]][cell[2]] = cell[2] + 1
        /\ rng_calls = 0
        /\ fn = "_return_imbalance" =>
               /\ imb.kind = "num"
               /\ imb.num * (k * Points) = 2 * SumTo(k) * imb.den

\* In every row the entries of columns 0..k are pairwise distinct.
DistinctUpToK ==
    \A r \in 0 .. Points - 1 : \A p \in 0 .. k : \A q \in 0 .. k :
        dist_indices_1.data[r][p] = dist_indices_1.data[r][q] => p = q

\* C5 amended: identical matrices with at least one row, 1 <= k <= M1 - 1,
\* and in every row pairwise distinct entries in columns 0..k give ranks
\* j+1, no draw, and the imbalance mean(1..k) / (N/2).
C5_IdenticalDistinctGivesOwnPosition ==
    (pc = "done" /\ dist_indices_1 = dist_indices_2 /\ ValidK
       /\ Points >= 1 /\ DistinctUpToK) =>
        /\ \A cell \in Cells : ranks[cell[1]][cell[2]] = cell[2] + 1
        /\ rng_calls = 0
        /\ fn = "_return_imbalance" =>
               /\ imb.kind = "num"
               /\ imb.num * (k * Points) = 2 * SumTo(k) * imb.den

\* The documented 4-point example with k = 1: all ranks 1, imbalance 1/2.
C5_Witness ==
    /\ pc = "done"
    /\ fn = "_return_imbalance"
    /\ dist_indices_1 = Example4
    /\ dist_indices_2 = Example4
    /\ k = 1
    /\ \A cell \in Cells : ranks[cell[1]][cell[2]] = 1
    /\ imb.num * 2 = imb.den

\* C6: for at least one point and a valid k, the imbalance returned is the
\* sum of the N*k returned ranks times 2 over N*N*k.
C6_ImbalanceIsMeanOverHalfN ==
    (pc = "done" /\ fn = "_return_imbalance" /\ Points >= 1 /\ ValidK) =>
        /\ imb.kind = "num"
        /\ imb.den > 0
        /\ imb.num * (Points * Points * k) = 2 * SumCells(Cells) * imb.den

\* An imbalance over two ranks per point, some drawn and some found.
C6_Witness ==
    /\ pc = "done"
    /\ fn = "_return_imbalance"
    /\ k = 2
    /\ Hits # {}
    /\ Misses # {}
    /\ imb.kind = "num"

\* C7: when every top-k neighbour is found, randint is never called and the
\* matrix returned is the one the arguments fix: the lowest position of each
\* neighbour.
C7_AllFoundIsDeterministic ==
    AllFound =>
        /\ rng_calls = 0
        /\ Returned =>
               ranks = [r \in 0 .. Points - 1 |->
                          [c \in 0 .. k - 1 |-> Least(Positions(<<r, c>>))]]

\* A returned matrix for two neighbours per point, all found, one of them at
\* several positions.
C7_Witness ==
    /\ pc = "done"
    /\ AllFound
    /\ k = 2
    /\ Points >= 2
    /\ \E cell \in Cells : Cardinality(Positions(cell)) >= 2

\* C8: for k = 1, N >= 2, rows that start with their own index and hold
\* distinct point indices, and no miss, every rank is in 1 .. N-1 and the
\* imbalance is strictly between 0 and 2.
C8_ImbalanceBetween0And2 ==
    (k = 1 /\ Points >= 2 /\ AllFound
       /\ WellFormed(dist_indices_1) /\ WellFormed(dist_indices_2)) =>
        /\ \A cell \in Cells :
              Assigned(cell) =>
                  /\ 1 <= conditional_ranks[cell[1]][cell[2]]
                  /\ conditional_ranks[cell[1]][cell[2]] <= Points - 1
        /\ (pc = "done" /\ fn = "_return_imbalance") =>
               /\ imb.kind = "num"
               /\ imb.den > 0
               /\ 0 < imb.num
               /\ imb.num < 2 * imb.den

\* An imbalance over three points whose ranks reach both 1 and N-1.
C8_Witness ==
    /\ pc = "done"
    /\ fn = "_return_imbalance"
    /\ k = 1
    /\ Points = 3
    /\ AllFound
    /\ WellFormed(dist_indices_1)
    /\ WellFormed(dist_indices_2)
    /\ \E a \in Cells : ranks[a[1]][a[2]] = 1
    /\ \E b \in Cells : ranks[b[1]][b[2]] = 2

\* C9: for equal row counts, point indices in [0, N) and 1 <= k <= M1 - 1,
\* the call never raises.
C9_ValidInputsNeverRaise ==
    (RowsAgree /\ ValidK /\ IndicesInRange) => pc # "raised"

\* C10: in a returned matrix an entry is >= M2 exactly when its neighbour is
\* absent from the row of dist_indices_2, so the entries >= M2 count the
\* misses.
C10_MissesAreVisible ==
    (RowsAgree /\ Returned) =>
        /\ \A cell \in Cells :
              ranks[cell[1]][cell[2]] >= M2 <=> Positions(cell) = {}
        /\ Cardinality({cell \in Cells : ranks[cell[1]][cell[2]] >= M2})
               = Cardinality(Misses)

\* A returned matrix with a found and a missed neighbour.
C10_Witness ==
    /\ pc = "done"
    /\ RowsAgree
    /\ \E a \in Hits : ranks[a[1]][a[2]] < M2
    /\ \E b \in Misses : ranks[b[1]][b[2]] >= M2

====
